---- MODULE Spec2Model ----
(***************************************************************************)
(* Model of OTETestHelper (ote_sdk/algo_backends/test_helpers/             *)
(* training_tests_helper.py): the expansion of test bunches into the test  *)
(* matrix (get_list_of_tests) and the single-slot test case cache          *)
(* (get_test_case, _Cache).                                                *)
(***************************************************************************)
EXTENDS Integers, Sequences, FiniteSets, TLC

(***************************************************************************)
(* Python values.  A value carries its type tag, so that 8 and '8' are     *)
(* different values although both format to the text 8.                    *)
(***************************************************************************)
PyStr(s) == [tag |-> "str", text |-> s, items |-> <<>>]

PyInt(s) == [tag |-> "int", text |-> s, items |-> <<>>]

None == [tag |-> "none", text |-> "None", items |-> <<>>]

PyList(xs) == [tag |-> "list", text |-> "", items |-> xs]

\* training_tests_common.DEFAULT_FIELD_VALUE_FOR_USING_IN_TEST(): the
\* distinguished "unset" placeholder of a test bunch field.
DEFAULT_FIELD_VALUE_FOR_USING_IN_TEST == PyStr("DEFAULT_FIELD_VALUE_FOR_USING_IN_TEST")

\* The empty dict {}.
EmptyDict == [k \in {} |-> None]

\* dict.get(key): the value, or None when the key is absent.
dict_get(d, k) == IF k \in DOMAIN d THEN d[k] ELSE None

Range(s) == {s[i] : i \in DOMAIN s}

\* A list that its creator keeps a reference to: id tells which object it
\* is, so that a change of the object shows wherever the object is held.
Object(id, xs) == [tag |-> "list", text |-> "", items |-> xs, id |-> id]

is_object(v) == "id" \in DOMAIN v

\* what the object holds, whichever object it is
contents(v) == IF is_object(v) THEN PyList(v.items) ELSE v

\* copy.deepcopy of a dict: new objects with the same contents
deepcopy(d) == [k \in DOMAIN d |-> contents(d[k])]

\* obj.append(x) for the object id, seen in the dict d that may hold it
appended(d, id, x) ==
    [k \in DOMAIN d |-> IF is_object(d[k]) /\ d[k].id = id
                         THEN [d[k] EXCEPT !.items = Append(@, x)] ELSE d[k]]

\* The cached value before any test case was created (None).
NoneObj == 0

(***************************************************************************)
(* OTETestHelper._Cache                                                    *)
(***************************************************************************)
Cache_init == [cache_parameters |-> EmptyDict, cached_value |-> NoneObj]

Cache_get(c) == c.cached_value

\* set that stores the value but leaves the stored parameters as they are
Cache_set_keep_params(c, params, value) ==
    [cache_parameters |-> c.cache_parameters, cached_value |-> value]

\* set that stores the value only into an empty slot
Cache_set_keep_value(c, params, value) ==
    [cache_parameters |-> params,
     cached_value |-> IF c.cached_value = NoneObj THEN value ELSE c.cached_value]

\* set that stores the dict of parameters that it is given, not a copy of it
Cache_set_by_reference(c, params, value) ==
    [cache_parameters |-> params, cached_value |-> value]

\* set stores deepcopy(params): no object of params is an object of the
\* stored parameters
Cache_set(c, params, value) ==
    [cache_parameters |-> deepcopy(params), cached_value |-> value]

\* has_same_params that compares the parameter names only
Cache_has_same_params_names(c, params) == DOMAIN c.cache_parameters = DOMAIN params

\* == of dicts compares the contents of their values
Cache_has_same_params(c, params) ==
    [k \in DOMAIN c.cache_parameters |-> contents(c.cache_parameters[k])]
        = [k \in DOMAIN params |-> contents(params[k])]

(***************************************************************************)
(* Formatting of a value inside an f-string (str()), and repr() of the     *)
(* elements of a list.                                                     *)
(***************************************************************************)
RECURSIVE format(_), repr(_), join_repr(_, _)

format(v) ==
    IF v.tag = "list" THEN "[" \o join_repr(v.items, 1) \o "]" ELSE v.text

repr(v) == IF v.tag = "str" THEN "'" \o v.text \o "'" ELSE format(v)

join_repr(xs, i) ==
    IF i > Len(xs) THEN ""
    ELSE IF i = Len(xs) THEN repr(xs[i])
    ELSE repr(xs[i]) \o ", " \o join_repr(xs, i + 1)

\* a join that puts the parts in reverse order
RECURSIVE join_comma_reversed(_, _)

join_comma_reversed(parts, i) ==
    IF i > Len(parts) THEN ""
    ELSE IF i = Len(parts) THEN parts[i]
    ELSE join_comma_reversed(parts, i + 1) \o "," \o parts[i]

\* ','.join(parts)
RECURSIVE join_comma(_, _)

join_comma(parts, i) ==
    IF i > Len(parts) THEN ""
    ELSE IF i = Len(parts) THEN parts[i]
    ELSE parts[i] \o "," \o join_comma(parts, i + 1)

(***************************************************************************)
(* OTETestHelper: the engine `self` is the record of its fields.           *)
(***************************************************************************)

\* _get_list_of_test_stages
get_list_of_test_stages(self) == self.test_stages

\* fill-in that replaces absent values only, not the placeholder
fill_test_parameters_default_values_absent_only(self, test_parameters) ==
    LET defaults == self.default_test_parameters
    IN  [k \in DOMAIN test_parameters \cup DOMAIN defaults |->
            IF k \in DOMAIN defaults /\ dict_get(test_parameters, k) = None
            THEN defaults[k]
            ELSE test_parameters[k]]

\* _fill_test_parameters_default_values: the test parameters after the call
fill_test_parameters_default_values(self, test_parameters) ==
    LET defaults == self.default_test_parameters
        unset(k) == \/ dict_get(test_parameters, k) = None
                    \/ dict_get(test_parameters, k) = DEFAULT_FIELD_VALUE_FOR_USING_IN_TEST
    IN  [k \in DOMAIN test_parameters \cup DOMAIN defaults |->
            IF k \in DOMAIN defaults /\ unset(k) THEN defaults[k]
            ELSE test_parameters[k]]

\* an id made of the parameter names instead of the parameter values
generate_test_id_of_names(self, test_parameters) ==
    LET names == self.short_test_parameters_names_for_generating_id
        id_parts == [i \in 1..Len(names) |->
                        names[i][2].text \o "-" \o names[i][1].text]
    IN  IF \E i \in 1..Len(names) : names[i][1].text \notin DOMAIN test_parameters
        THEN [raised |-> "KeyError", id |-> ""]
        ELSE [raised |-> "none", id |-> join_comma(id_parts, 1)]

\* _generate_test_id: raises KeyError when the test parameters lack a key of
\* short_test_parameters_names_for_generating_id
generate_test_id(self, test_parameters) ==
    LET names == self.short_test_parameters_names_for_generating_id
        id_parts == [i \in 1..Len(names) |->
                        names[i][2].text \o "-" \o format(test_parameters[names[i][1].text])]
    IN  IF \E i \in 1..Len(names) : names[i][1].text \notin DOMAIN test_parameters
        THEN [raised |-> "KeyError", id |-> ""]
        ELSE [raised |-> "none", id |-> join_comma(id_parts, 1)]

\* a product that iterates the models within each dataset
RECURSIVE product_dataset_major(_, _, _)

product_dataset_major(model_names, dataset_names, j) ==
    IF j > Len(dataset_names) THEN <<>>
    ELSE [i \in 1..Len(model_names) |-> <<model_names[i], dataset_names[j]>>]
            \o product_dataset_major(model_names, dataset_names, j + 1)

\* itertools.product(model_names, dataset_names), built as the nested loops
\* of the product: for m in model_names: for d in dataset_names
RECURSIVE product_inner(_, _, _), product(_, _, _)

product_inner(m, dataset_names, j) ==
    IF j > Len(dataset_names) THEN <<>>
    ELSE <<(<<m, dataset_names[j]>>)>> \o product_inner(m, dataset_names, j + 1)

product(model_names, dataset_names, i) ==
    IF i > Len(model_names) THEN <<>>
    ELSE product_inner(model_names[i], dataset_names, 1)
            \o product(model_names, dataset_names, i + 1)

\* the loop body that generates the id before the default values are filled
stage_body_id_first(self, acc, m, d, test_stage) ==
    LET copied == acc.el
        unfilled == ("test_stage" :> test_stage) @@ ("model_name" :> m)
                        @@ ("dataset_name" :> d) @@ copied
        test_parameters == fill_test_parameters_default_values(self, unfilled)
        tid == generate_test_id(self, unfilled)
    IN  IF tid.raised # "none"
        THEN [acc EXCEPT !.raised = tid.raised,
                         !.argvalues = Append(acc.argvalues, <<test_parameters>>)]
        ELSE [acc EXCEPT !.argvalues = Append(acc.argvalues, <<test_parameters>>),
                         !.ids = Append(acc.ids, tid.id)]

\* the loop body without the deepcopy: test_parameters is the bunch el itself
stage_body_inplace(self, acc, m, d, test_stage) ==
    LET test_parameters == fill_test_parameters_default_values(self,
              ("test_stage" :> test_stage) @@ ("model_name" :> m)
                  @@ ("dataset_name" :> d) @@ acc.el)
        tid == generate_test_id(self, test_parameters)
    IN  IF tid.raised # "none"
        THEN [acc EXCEPT !.raised = tid.raised, !.el = test_parameters,
                         !.argvalues = Append(acc.argvalues, <<test_parameters>>)]
        ELSE [acc EXCEPT !.argvalues = Append(acc.argvalues, <<test_parameters>>),
                         !.el = test_parameters,
                         !.ids = Append(acc.ids, tid.id)]

\* The body of the innermost loop of get_list_of_tests (lines 269-275).
\* acc holds the locals argvalues, ids, the bunch el as it is after the
\* iterations so far, and the exception raised, if any.
stage_body(self, acc, m, d, test_stage) ==
    LET copied == acc.el  \* deepcopy(el): a dict of its own, el stays as it is
        test_parameters == fill_test_parameters_default_values(self,
              ("test_stage" :> test_stage) @@ ("model_name" :> m)
                  @@ ("dataset_name" :> d) @@ copied)
        tid == generate_test_id(self, test_parameters)
    IN  IF tid.raised # "none"
        THEN [acc EXCEPT !.raised = tid.raised,
                         !.argvalues = Append(acc.argvalues, <<test_parameters>>)]
        ELSE [acc EXCEPT !.argvalues = Append(acc.argvalues, <<test_parameters>>),
                         !.ids = Append(acc.ids, tid.id)]

RECURSIVE stage_loop(_, _, _, _, _)

stage_loop(self, acc, m, d, k) ==
    LET stages == get_list_of_test_stages(self)
    IN  IF acc.raised # "none" \/ k > Len(stages) THEN acc
        ELSE stage_loop(self, stage_body(self, acc, m, d, stages[k]), m, d, k + 1)

RECURSIVE pair_loop(_, _, _, _)

pair_loop(self, acc, model_dataset_pairs, j) ==
    IF acc.raised # "none" \/ j > Len(model_dataset_pairs) THEN acc
    ELSE pair_loop(self,
                   stage_loop(self, acc, model_dataset_pairs[j][1],
                              model_dataset_pairs[j][2], 1),
                   model_dataset_pairs, j + 1)

\* the loop over test_bunches that skips a bunch only if it has a usecase
bunch_body_skip_if_set(self, acc, usecase) ==
    LET el == acc.el
        el_model_name == dict_get(el, "model_name")
        el_dataset_name == dict_get(el, "dataset_name")
        el_usecase == dict_get(el, "usecase")
        model_names == IF el_model_name.tag = "list"
                       THEN el_model_name.items ELSE <<el_model_name>>
        dataset_names == IF el_dataset_name.tag = "list"
                         THEN el_dataset_name.items ELSE <<el_dataset_name>>
        model_dataset_pairs == product(model_names, dataset_names, 1)
    IN  IF usecase # None /\ el_usecase # None /\ el_usecase # usecase THEN acc
        ELSE pair_loop(self, acc, model_dataset_pairs, 1)

\* One iteration of the loop over test_bunches (lines 250-275).
bunch_body(self, acc, usecase) ==
    LET el == acc.el
        el_model_name == dict_get(el, "model_name")
        el_dataset_name == dict_get(el, "dataset_name")
        el_usecase == dict_get(el, "usecase")
        model_names == IF el_model_name.tag = "list"
                       THEN el_model_name.items ELSE <<el_model_name>>
        dataset_names == IF el_dataset_name.tag = "list"
                         THEN el_dataset_name.items ELSE <<el_dataset_name>>
        model_dataset_pairs == product(model_names, dataset_names, 1)
    IN  IF usecase # None /\ el_usecase # usecase THEN acc
        ELSE pair_loop(self, acc, model_dataset_pairs, 1)

RECURSIVE bunch_loop(_, _, _, _)

bunch_loop(self, acc, usecase, b) ==
    IF acc.raised # "none" \/ b > Len(self.test_bunches) THEN acc
    ELSE LET after == bunch_body(self, [acc EXCEPT !.el = acc.test_bunches[b]], usecase)
         IN  bunch_loop(self,
                        [after EXCEPT !.test_bunches = [acc.test_bunches EXCEPT ![b] = after.el]],
                        usecase, b + 1)

\* isinstance(el, dict): a dict is a function of its keys, every other value
\* is a record with a tag
is_dict(el) == "tag" \notin DOMAIN el

\* get_list_of_tests(usecase): the returned triple (or the exception raised)
\* and the list self.test_bunches as it is after the call.
get_list_of_tests(self, usecase) ==
    LET acc0 == [raised |-> "none", argvalues |-> <<>>, ids |-> <<>>,
                 el |-> EmptyDict, test_bunches |-> self.test_bunches]
        acc == bunch_loop(self, acc0, usecase, 1)
    IN  IF \E b \in 1..Len(self.test_bunches) : ~is_dict(self.test_bunches[b])
        THEN [raised |-> "AssertionError", argnames |-> <<>>, argvalues |-> <<>>,
              ids |-> <<>>, test_bunches |-> self.test_bunches]
        ELSE IF acc.raised # "none"
        THEN [raised |-> acc.raised, argnames |-> <<>>, argvalues |-> <<>>,
              ids |-> <<>>, test_bunches |-> acc.test_bunches]
        ELSE [raised |-> "none", argnames |-> <<"test_parameters">>,
              argvalues |-> acc.argvalues, ids |-> acc.ids,
              test_bunches |-> acc.test_bunches]

\* get_test_case that stores the parameters before it constructs the test case
get_test_case_store_first(self, test_parameters, ctor) ==
    LET keys == self.test_parameters_defining_test_case_behavior
        params_defining_cache ==
            [k \in {keys[i].text : i \in 1..Len(keys)} |-> test_parameters[k]]
    IN  IF \E i \in 1..Len(keys) : keys[i].text \notin DOMAIN test_parameters
        THEN [raised |-> "KeyError", cache |-> self.cache, value |-> NoneObj,
              called_ctor |-> FALSE, params |-> EmptyDict]
        ELSE IF ~Cache_has_same_params(self.cache, params_defining_cache)
        THEN IF ctor.raises
             THEN [raised |-> "ctor",
                   cache |-> Cache_set(self.cache, params_defining_cache,
                                       Cache_get(self.cache)),
                   value |-> NoneObj,
                   called_ctor |-> TRUE, params |-> params_defining_cache]
             ELSE LET c == Cache_set(self.cache, params_defining_cache, ctor.instance)
                  IN  [raised |-> "none", cache |-> c, value |-> Cache_get(c),
                       called_ctor |-> TRUE, params |-> params_defining_cache]
        ELSE [raised |-> "none", cache |-> self.cache, value |-> Cache_get(self.cache),
              called_ctor |-> FALSE, params |-> params_defining_cache]

\* get_test_case(test_parameters, params_factories_for_test_actions).
\* ctor is what self.test_case_class(params_factories_for_test_actions) does
\* if it is called: raise, or produce the instance ctor.instance.
get_test_case(self, test_parameters, ctor) ==
    LET keys == self.test_parameters_defining_test_case_behavior
        params_defining_cache ==
            [k \in {keys[i].text : i \in 1..Len(keys)} |-> test_parameters[k]]
    IN  IF \E i \in 1..Len(keys) : keys[i].text \notin DOMAIN test_parameters
        THEN [raised |-> "KeyError", cache |-> self.cache, value |-> NoneObj,
              called_ctor |-> FALSE, params |-> EmptyDict]
        ELSE IF ~Cache_has_same_params(self.cache, params_defining_cache)
        THEN IF ctor.raises
             THEN [raised |-> "ctor", cache |-> self.cache, value |-> NoneObj,
                   called_ctor |-> TRUE, params |-> params_defining_cache]
             ELSE LET c == Cache_set(self.cache, params_defining_cache, ctor.instance)
                  IN  [raised |-> "none", cache |-> c, value |-> Cache_get(c),
                       called_ctor |-> TRUE, params |-> params_defining_cache]
        ELSE [raised |-> "none", cache |-> self.cache, value |-> Cache_get(self.cache),
              called_ctor |-> FALSE, params |-> params_defining_cache]

\* __init__ without the check that usecase is one of the names
OTETestHelper_init_unchecked_usecase(test_creation_parameters) ==
    LET names == test_creation_parameters.short_test_parameters_names_for_generating_id
        keys == test_creation_parameters.test_parameters_defining_test_case_behavior
        has(k) == \E i \in 1..Len(names.items) : names.items[i][1] = PyStr(k)
        valid ==
            /\ names.type = "OrderedDict"
            /\ \A i \in 1..Len(names.items) :
                   names.items[i][1].tag = "str" /\ names.items[i][2].tag = "str"
            /\ has("test_stage")
            /\ has("model_name")
            /\ has("dataset_name")
            /\ \A i \in 1..Len(keys) : keys[i].tag = "str"
    IN  [raised |-> IF valid THEN "none" ELSE "AssertionError",
         \* lines 183-191 assign what the methods returned, without a copy
         held |-> {"test_bunches", "short_test_parameters_names_for_generating_id",
                   "test_parameters_defining_test_case_behavior",
                   "default_test_parameters"},
         self |-> [test_stages |-> test_creation_parameters.test_stages,
                   test_bunches |-> test_creation_parameters.test_bunches,
                   short_test_parameters_names_for_generating_id |-> names.items,
                   test_parameters_defining_test_case_behavior |-> keys,
                   default_test_parameters |->
                       test_creation_parameters.default_test_parameters,
                   cache |-> Cache_init]]

\* __init__(test_creation_parameters): the new engine, or the AssertionError
\* of one of the checks of lines 195-208.
OTETestHelper_init(test_creation_parameters) ==
    LET names == test_creation_parameters.short_test_parameters_names_for_generating_id
        keys == test_creation_parameters.test_parameters_defining_test_case_behavior
        has(k) == \E i \in 1..Len(names.items) : names.items[i][1] = PyStr(k)
        valid ==
            /\ names.type = "OrderedDict"
            /\ \A i \in 1..Len(names.items) :
                   names.items[i][1].tag = "str" /\ names.items[i][2].tag = "str"
            /\ has("test_stage")
            /\ has("model_name")
            /\ has("dataset_name")
            /\ has("usecase")
            /\ \A i \in 1..Len(keys) : keys[i].tag = "str"
    IN  [raised |-> IF valid THEN "none" ELSE "AssertionError",
         \* lines 183-191 assign what the methods returned, without a copy
         held |-> {"test_bunches", "short_test_parameters_names_for_generating_id",
                   "test_parameters_defining_test_case_behavior",
                   "default_test_parameters"},
         self |-> [test_stages |-> test_creation_parameters.test_stages,
                   test_bunches |-> test_creation_parameters.test_bunches,
                   short_test_parameters_names_for_generating_id |-> names.items,
                   test_parameters_defining_test_case_behavior |-> keys,
                   default_test_parameters |->
                       test_creation_parameters.default_test_parameters,
                   cache |-> Cache_init]]

(***************************************************************************)
(* Inputs: the values the test creation parameters are drawn from.         *)
(***************************************************************************)
MaxBunches == 2

MaxSteps == 4

MaxRaises == 1

MaxIds == 2

MaxCalls == 2

\* Marks a field that a test bunch does not have; never stored in a dict.
Absent == [tag |-> "absent", text |-> "", items |-> <<>>]

with_field(d, k, v) == IF v = Absent THEN d ELSE (k :> v) @@ d

Bunch(model, dataset, usecase, batch) ==
    with_field(with_field(with_field(with_field(EmptyDict,
        "model_name", model), "dataset_name", dataset), "usecase", usecase),
        "batch_size", batch)

ModelChoices == {PyStr("A"), PyList(<<PyStr("A"), PyStr("B")>>)}

DatasetChoices == {PyStr("X"), PyList(<<PyStr("X"), PyStr("Y")>>)}

UsecaseChoices == {None, PyStr("precommit"), PyStr("nightly")}

BatchChoices == {DEFAULT_FIELD_VALUE_FOR_USING_IN_TEST, PyInt("8"), None}

\* Test bunches: every shape of model_name, dataset_name and usecase, and
\* some with an explicit or placeholder batch_size or an empty model list,
\* and a bunch that is a str instead of a dict.
Bunches ==
    {Bunch(m, d, u, Absent) : m \in ModelChoices, d \in DatasetChoices,
                              u \in UsecaseChoices}
    \cup {Bunch(PyStr("A"), PyStr("X"), PyStr("precommit"), b) : b \in BatchChoices}
    \cup {Bunch(PyList(<<>>), PyStr("X"), PyStr("precommit"), Absent)}
    \cup {PyStr("bunch")}

\* Test bunches of the runs of collected tests.
SuiteBunches ==
    {Bunch(m, PyStr("X"), u, b) : m \in ModelChoices,
                                  u \in {PyStr("precommit"), PyStr("nightly")},
                                  b \in {Absent, PyInt("8")}}

SeqsUpTo(S, n) == UNION {[1..k -> S] : k \in 0..n}

\* The usecase arguments of get_list_of_tests; None is "no filter".
Filters == {None, PyStr("precommit"), PyStr("nightly")}

Stages == <<PyStr("train"), PyStr("eval")>>

Names(keys) == [type |-> "OrderedDict",
                items |-> [i \in 1..Len(keys) |-> <<PyStr(keys[i][1]), PyStr(keys[i][2])>>]]

ShortNames == Names(<< <<"test_stage", "ACTION">>, <<"model_name", "model">>,
                       <<"dataset_name", "dataset">>, <<"batch_size", "batch">>,
                       <<"usecase", "usecase">> >>)

ShortNamesWithoutUsecase ==
    Names(<< <<"test_stage", "ACTION">>, <<"model_name", "model">>,
             <<"dataset_name", "dataset">> >>)

\* the names that __init__ requires
RequiredNames == {"test_stage", "model_name", "dataset_name", "usecase"}

\* ShortNames without the name k
ShortNamesWithout(k) ==
    [ShortNames EXCEPT !.items = SelectSeq(@, LAMBDA item : item[1] # PyStr(k))]

\* Names that __init__ rejects: a required name is missing, the names are a
\* plain dict, or a name or a short name is not a string.
InvalidShortNames ==
    {ShortNamesWithout(k) : k \in RequiredNames}
    \cup {[ShortNames EXCEPT !.type = "dict"],
          [ShortNames EXCEPT !.items[4][2] = PyInt("4")],
          [ShortNames EXCEPT !.items[4][1] = PyInt("4")]}

Keys(ks) == [i \in 1..Len(ks) |-> PyStr(ks[i])]

Defaults == "batch_size" :> PyInt("2")

Contract(bunches, names, keys, defaults) ==
    [test_stages |-> Stages, test_bunches |-> bunches,
     short_test_parameters_names_for_generating_id |-> names,
     test_parameters_defining_test_case_behavior |-> keys,
     default_test_parameters |-> defaults]

\* The test creation parameters of the runs that use the cache.
CacheContracts ==
    {Contract(bs, ns, ks, Defaults) :
        bs \in {<<>>, <<Bunch(PyList(<<PyStr("A"), PyStr("B")>>), PyStr("X"),
                              PyStr("precommit"), Absent)>>},
        ns \in {ShortNames, ShortNamesWithoutUsecase} \cup InvalidShortNames,
        ks \in {Keys(<<>>), Keys(<<"model_name">>),
                Keys(<<"model_name", "batch_size">>),
                Keys(<<"model_name", "test_stage">>), <<PyInt("1")>>,
                <<PyStr("model_name"), None>>}}

\* The test creation parameters of the runs that expand test bunches.
MatrixContracts ==
    {Contract(bs, ShortNames, Keys(<<"model_name", "dataset_name", "batch_size">>), ds) :
        bs \in SeqsUpTo(Bunches, MaxBunches), ds \in {Defaults, EmptyDict}}

\* The test creation parameters of the runs of collected tests.
SuiteContracts ==
    {Contract(bs, ShortNames, ks, Defaults) :
        bs \in SeqsUpTo(SuiteBunches, MaxBunches),
        ks \in {Keys(<<>>), Keys(<<"model_name", "dataset_name", "batch_size">>),
                Keys(<<"model_name", "test_stage">>)}}

\* The test parameters that callers pass to get_test_case directly.
TestParameterInputs ==
    {with_field([model_name |-> m, dataset_name |-> PyStr("X"), test_stage |-> s,
                 usecase |-> PyStr("precommit")], "batch_size", b) :
        m \in {PyStr("A"), PyStr("B")}, s \in Range(Stages), b \in {Absent, PyInt("8")}}

\* The test creation parameters of the runs that generate test ids.
IdContracts == {Contract(<<>>, ShortNames, Keys(<<"model_name">>), Defaults)}

\* The test parameters that test ids are generated for: values with and
\* without commas, the int 8 and the str '8', with and without a parameter
\* that is not in the id, with and without usecase.
IdParameterInputs ==
    {with_field(with_field([test_stage |-> PyStr("train"), model_name |-> m,
                            dataset_name |-> d, batch_size |-> b],
                           "usecase", u), "num_iters", n) :
        m \in {PyStr("A"), PyStr("B"), PyStr("A,dataset-X")},
        d \in {PyStr("Y"), PyStr("X,dataset-Y")},
        b \in {PyInt("8"), PyStr("8")},
        u \in {PyStr("precommit"), Absent},
        n \in {PyInt("1"), Absent}}

\* DefaultOTETestCreationParametersInterface: the names, the parameters and
\* the default values that it returns.
DEFAULT_SHORT_TEST_PARAMETERS_NAMES_FOR_GENERATING_ID ==
    Names(<< <<"test_stage", "ACTION">>, <<"model_name", "model">>,
             <<"dataset_name", "dataset">>, <<"num_training_iters", "num_iters">>,
             <<"batch_size", "batch">>, <<"usecase", "usecase">> >>)

DEFAULT_TEST_PARAMETERS_DEFINING_IMPL_BEHAVIOR ==
    Keys(<<"model_name", "dataset_name", "num_training_iters", "batch_size">>)

DEFAULT_TEST_PARAMETERS ==
    ("num_iters" :> PyInt("1")) @@ ("batch_size" :> PyInt("2"))

\* Test bunches of the shape of the docstring of test_bunches: model_name,
\* dataset_name and usecase.
DocumentedBunches ==
    {Bunch(m, d, u, Absent) : m \in ModelChoices, d \in DatasetChoices,
                              u \in {PyStr("precommit"), PyStr("nightly")}}

\* The test creation parameters that take everything but the test bunches
\* from DefaultOTETestCreationParametersInterface.
DefaultContracts ==
    {Contract(bs, DEFAULT_SHORT_TEST_PARAMETERS_NAMES_FOR_GENERATING_ID,
              DEFAULT_TEST_PARAMETERS_DEFINING_IMPL_BEHAVIOR,
              DEFAULT_TEST_PARAMETERS) : bs \in SeqsUpTo(DocumentedBunches, MaxBunches)}

\* The threads that call get_test_case, the test creation parameters of
\* their engine and the test parameters that they call it with.
Threads == {1, 2}

ThreadContracts == {Contract(<<>>, ShortNames, Keys(<<"model_name">>), Defaults)}

ThreadParameterInputs ==
    {[model_name |-> m, dataset_name |-> PyStr("X"), test_stage |-> PyStr("train"),
      usecase |-> PyStr("precommit")] : m \in {PyStr("A"), PyStr("B")}}

\* The test creation parameters and the test parameters of the runs in which
\* the caller changes its test parameters between the get_test_case calls:
\* the caller holds a dict whose dataset_name is a list object, and also
\* calls with new dicts of the same and of other contents.
AliasContracts ==
    {Contract(<<>>, ShortNames, Keys(<<"model_name", "dataset_name">>), Defaults)}

HeldTestParameters ==
    [model_name |-> PyStr("A"), dataset_name |-> Object("datasets", <<PyStr("X")>>),
     test_stage |-> PyStr("train"), usecase |-> PyStr("precommit")]

AliasParameterInputs ==
    {[model_name |-> PyStr("A"), dataset_name |-> PyList(d),
      test_stage |-> PyStr("train"), usecase |-> PyStr("precommit")] :
        d \in {<<PyStr("X")>>, <<PyStr("X"), PyStr("Y")>>}}

\* The test creation parameters of the runs in which the caller changes
\* what the test creation parameters returned.
MutationContracts ==
    {Contract(<<Bunch(PyList(<<PyStr("A"), PyStr("B")>>), PyStr("X"),
                      PyStr("precommit"), Absent)>>,
              ShortNames, Keys(<<"model_name">>), Defaults)}

\* What the caller makes of an object that the test creation parameters
\* returned: a bunch more, another short name, a parameter more, another
\* default.
Mutated(field, object) ==
    CASE field = "test_bunches" ->
             Append(object, Bunch(PyStr("C"), PyStr("X"), PyStr("precommit"), Absent))
      [] field = "short_test_parameters_names_for_generating_id" ->
             [object EXCEPT !.items[2][2] = PyStr("m")]
      [] field = "test_parameters_defining_test_case_behavior" ->
             Append(object, PyStr("test_stage"))
      [] field = "default_test_parameters" ->
             [object EXCEPT !.batch_size = PyInt("4")]

(***************************************************************************)
(* State.                                                                  *)
(***************************************************************************)
VARIABLES
    test_creation_parameters,  \* what the methods of the argument of __init__
                               \* returned, as these objects are now, and which
                               \* of them the engine holds (not a copy of them)
    status,        \* "ready": __init__ returned; "failed": it raised
    test_stages,   \* self.test_case_class.get_list_of_test_stages()
    test_bunches,
    short_test_parameters_names_for_generating_id,
    test_parameters_defining_test_case_behavior,
    default_test_parameters,
    cache,         \* self._cache
    created,       \* number of test case instances constructed so far
    log,           \* the calls made on the engine and what they returned
    results,       \* what get_list_of_tests returned, for each usecase
    suite,         \* the run of the collected tests, in collection order
    threads,       \* the get_test_case calls of the threads that are under way
    current_test_parameters  \* the test parameters dict that the caller holds

vars == <<test_creation_parameters, status, test_stages, test_bunches,
          short_test_parameters_names_for_generating_id,
          test_parameters_defining_test_case_behavior,
          default_test_parameters, cache, created, log, results, suite,
          threads, current_test_parameters>>

callers == <<threads, current_test_parameters>>

config == <<status, test_stages, short_test_parameters_names_for_generating_id,
            test_parameters_defining_test_case_behavior, default_test_parameters>>

Self == [test_stages |-> test_stages, test_bunches |-> test_bunches,
         short_test_parameters_names_for_generating_id |->
             short_test_parameters_names_for_generating_id,
         test_parameters_defining_test_case_behavior |->
             test_parameters_defining_test_case_behavior,
         default_test_parameters |-> default_test_parameters,
         cache |-> cache]

NotCalled == [raised |-> "not called"]

NoSuite == [tests |-> <<>>, outcomes |-> <<>>]

NoThreads == [serialized |-> TRUE, built |-> <<>>, call |-> <<>>]

NoTestParameters == EmptyDict

\* The engine after OTETestHelper(test_creation_parameters)
Constructed(contracts) ==
    \E c \in contracts :
        LET r == OTETestHelper_init(c)
        IN  /\ test_creation_parameters = [returned |-> c, held |-> r.held]
            /\ status = IF r.raised = "none" THEN "ready" ELSE "failed"
            /\ test_stages = r.self.test_stages
            /\ test_bunches = r.self.test_bunches
            /\ short_test_parameters_names_for_generating_id =
                   r.self.short_test_parameters_names_for_generating_id
            /\ test_parameters_defining_test_case_behavior =
                   r.self.test_parameters_defining_test_case_behavior
            /\ default_test_parameters = r.self.default_test_parameters
            /\ cache = r.self.cache
            /\ created = 0
            /\ log = <<>>
            /\ results = [u \in Filters |-> NotCalled]
            /\ suite = NoSuite

\* The state after OTETestHelper(test_creation_parameters), with callers
\* that call the engine one after the other
InitWith(contracts) ==
    /\ Constructed(contracts)
    /\ threads = NoThreads
    /\ current_test_parameters = NoTestParameters

Init == InitWith(CacheContracts)

InitMatrix == InitWith(MatrixContracts)

\* The triple get_list_of_tests returned, or the exception it raised.
Returned(r) == [raised |-> r.raised, argnames |-> r.argnames,
                argvalues |-> r.argvalues, ids |-> r.ids]

\* A caller calls get_test_case(test_parameters, ...); the test case
\* constructor, if called, raises or returns a new instance.
GetTestCase(test_parameters, raises) ==
    /\ status = "ready"
    /\ Len(log) < MaxSteps
    /\ LET r == get_test_case(Self, test_parameters,
                              [raises |-> raises, instance |-> created + 1])
       IN  /\ cache' = r.cache
           /\ created' = IF r.called_ctor /\ r.raised = "none" THEN created + 1 ELSE created
           /\ log' = Append(log, [op |-> "get_test_case", params |-> r.params,
                                  raised |-> r.raised, value |-> r.value,
                                  called_ctor |-> r.called_ctor, before |-> cache,
                                  after |-> r.cache])
    /\ UNCHANGED <<test_creation_parameters, callers, config, test_bunches, results, suite>>

\* A caller calls get_list_of_tests(usecase).
GetListOfTests(usecase) ==
    /\ status = "ready"
    /\ Len(log) < MaxSteps
    /\ LET r == get_list_of_tests(Self, usecase)
       IN  /\ test_bunches' = r.test_bunches
           /\ log' = Append(log, [op |-> "get_list_of_tests", usecase |-> usecase,
                                  result |-> Returned(r)])
    /\ UNCHANGED <<test_creation_parameters, callers, config, cache, created, results, suite>>

Next ==
    \/ \E tp \in TestParameterInputs, raises \in BOOLEAN : GetTestCase(tp, raises)
    \/ \E u \in Filters : GetListOfTests(u)

Spec == Init /\ [][Next]_vars

\* Test discovery: get_list_of_tests(usecase) is called and its result kept.
Discover(usecase) ==
    /\ status = "ready"
    /\ LET r == get_list_of_tests(Self, usecase)
       IN  /\ test_bunches' = r.test_bunches
           /\ results' = [results EXCEPT ![usecase] = Returned(r)]
    /\ UNCHANGED <<test_creation_parameters, callers, config, cache, created, log, suite>>

NextMatrix == \E u \in Filters : Discover(u)

SpecMatrix == InitMatrix /\ [][NextMatrix]_vars

InitSuite == InitWith(SuiteContracts)

\* The test runner collects the tests: get_list_of_tests(usecase).
Collect(usecase) ==
    /\ status = "ready"
    /\ suite = NoSuite
    /\ LET r == get_list_of_tests(Self, usecase)
       IN  /\ r.raised = "none"
           /\ r.argvalues # <<>>
           /\ test_bunches' = r.test_bunches
           /\ suite' = [tests |-> r.argvalues, outcomes |-> <<>>]
    /\ UNCHANGED <<test_creation_parameters, callers, config, cache, created, log, results>>

\* The test runner runs the next collected test, which calls get_test_case
\* with its test parameters.
RunTest(raises) ==
    /\ status = "ready"
    /\ Len(suite.outcomes) < Len(suite.tests)
    /\ raises =>
          Cardinality({i \in 1..Len(suite.outcomes) :
                          suite.outcomes[i].raised = "ctor"}) < MaxRaises
    /\ LET test_parameters == suite.tests[Len(suite.outcomes) + 1][1]
           r == get_test_case(Self, test_parameters,
                              [raises |-> raises, instance |-> created + 1])
       IN  /\ cache' = r.cache
           /\ created' = IF r.called_ctor /\ r.raised = "none" THEN created + 1 ELSE created
           /\ suite' = [suite EXCEPT !.outcomes =
                           Append(@, [raised |-> r.raised, value |-> r.value,
                                      called_ctor |-> r.called_ctor])]
    /\ UNCHANGED <<test_creation_parameters, callers, config, test_bunches, log, results>>

NextSuite ==
    \/ \E u \in Filters : Collect(u)
    \/ \E raises \in BOOLEAN : RunTest(raises)

SpecSuite == InitSuite /\ [][NextSuite]_vars

(***************************************************************************)
(* Properties of the test case cache.                                      *)
(***************************************************************************)
IsGetTestCase(i) == i \in 1..Len(log) /\ log[i].op = "get_test_case"

\* i is a get_test_case call that returned a value
Returns(i) == IsGetTestCase(i) /\ log[i].raised = "none"

\* i is a get_test_case call that constructed a test case
Constructs(i) == Returns(i) /\ log[i].called_ctor

\* i is a get_test_case call that projected its test parameters
Projects(i) == IsGetTestCase(i) /\ log[i].raised # "KeyError"

\* no get_test_case call between calls i and k returned
NothingReturnedBetween(i, k) == \A j \in (i + 1)..(k - 1) : ~Returns(j)

\* C1: in every get_test_case call the test case constructor is called if and
\* only if the projected parameters differ from the parameters stored in the
\* cache; when they are equal the cached value is returned and the cache is
\* left as it is; when they differ and the constructor returns, the new
\* instance is stored with the projected parameters and is returned.
C1_ConstructIffKeyDiffers ==
    \A i \in 1..Len(log) : Projects(i) =>
        LET e == log[i]
            same == e.before.cache_parameters = e.params
        IN  /\ e.called_ctor <=> ~same
            /\ same => /\ e.raised = "none"
                       /\ e.value = e.before.cached_value
                       /\ e.after = e.before
            /\ (~same /\ e.raised = "none") =>
                   /\ e.after = [cache_parameters |-> e.params, cached_value |-> e.value]
                   /\ e.value # NoneObj
                   /\ \A j \in 1..(i - 1) : IsGetTestCase(j) => log[j].value # e.value

\* A call that rebuilt and a later call that reused what was built.
C1_Witness ==
    \E i, j \in 1..Len(log) :
        /\ i < j
        /\ Constructs(i)
        /\ Returns(j)
        /\ ~log[j].called_ctor
        /\ log[j].value = log[i].value

\* The log is four get_test_case calls that returned, with keys k1, k1, k2, k1.
KeysK1K1K2K1 ==
    /\ Len(log) = 4
    /\ \A i \in 1..4 : Returns(i)
    /\ log[2].params = log[1].params
    /\ log[4].params = log[1].params
    /\ log[3].params # log[1].params

\* C2 as stated: after get_test_case calls with keys k1, k1, k2, k1 on a new
\* engine exactly 2 test cases have been constructed.
C2_TwoConstructions == KeysK1K1K2K1 => created = 2

\* C2, amended: after get_test_case calls with keys k1, k1, k2, k1 on a new
\* engine, all of which returned, exactly 3 test cases have been constructed:
\* at the first k1, at k2 and at the last k1.
C2_ThreeConstructions ==
    KeysK1K1K2K1 =>
        /\ created = 3
        /\ Constructs(1) /\ ~Constructs(2) /\ Constructs(3) /\ Constructs(4)

C2_Witness == KeysK1K1K2K1

\* C3: reuse is last-key-only.  When calls with keys k1 and then k2 # k1 have
\* returned, the next call that projects k1 calls the constructor, and what it
\* returns is not the instance returned for the first k1; and every returned
\* instance was constructed, by the latest construction so far, for the
\* parameters of the call it is returned to.
C3_LastKeyOnly ==
    /\ \A i, j, k \in 1..Len(log) :
           (/\ i < j /\ j < k
            /\ Returns(i) /\ Returns(j) /\ Projects(k)
            /\ log[j].params # log[i].params
            /\ log[k].params = log[i].params
            /\ NothingReturnedBetween(j, k))
           => /\ log[k].called_ctor
              /\ log[k].raised = "none" => log[k].value # log[i].value
    /\ \A k \in 1..Len(log) :
           (Returns(k) /\ log[k].value # NoneObj) =>
               \E j \in 1..k :
                   /\ Constructs(j)
                   /\ log[j].value = log[k].value
                   /\ log[j].params = log[k].params
                   /\ \A m \in (j + 1)..k : ~Constructs(m)

\* Calls with keys k1, k2, k1 that all returned.
C3_Witness ==
    \E i, j, k \in 1..Len(log) :
        /\ i < j /\ j < k
        /\ Returns(i) /\ Returns(j) /\ Returns(k)
        /\ log[j].params # log[i].params
        /\ log[k].params = log[i].params
        /\ NothingReturnedBetween(j, k)

\* C4: when the test case constructor raises in a get_test_case call, the
\* cache is what it was before the call, and the next get_test_case call, if
\* it projects the parameters that were cached, returns the cached value
\* without calling the constructor.
C4_FailedConstructionKeepsCache ==
    \A i \in 1..Len(log) : (IsGetTestCase(i) /\ log[i].raised = "ctor") =>
        /\ log[i].after = log[i].before
        /\ i = Len(log) => cache = log[i].before
        /\ \A k \in (i + 1)..Len(log) :
               (/\ Projects(k)
                /\ \A j \in (i + 1)..(k - 1) : ~IsGetTestCase(j)
                /\ log[k].params = log[i].before.cache_parameters)
               => /\ ~log[k].called_ctor
                  /\ log[k].raised = "none"
                  /\ log[k].value = log[i].before.cached_value

\* A test case is cached, a construction for other parameters fails, and
\* the next call asks for the cached parameters again.
C4_Witness ==
    \E i \in 1..Len(log) :
        /\ IsGetTestCase(i) /\ log[i].raised = "ctor"
        /\ log[i].before.cached_value # NoneObj
        /\ Returns(i + 1)
        /\ log[i + 1].params = log[i].before.cache_parameters
        /\ log[i + 1].value = log[i].before.cached_value

\* C5 as stated: every get_test_case call that returns, returns an instance
\* that the test case constructor produced, never the initial value of the
\* cache; the first call on a new engine calls the constructor.
C5_ReturnsConstructedInstance ==
    \A i \in 1..Len(log) :
        /\ Returns(i) => log[i].value # NoneObj
        /\ (Projects(i) /\ \A j \in 1..(i - 1) : ~IsGetTestCase(j)) => log[i].called_ctor

(***************************************************************************)
(* Properties of the run of the collected tests.                           *)
(***************************************************************************)
TestStageIsNoKey ==
    \A i \in 1..Len(test_parameters_defining_test_case_behavior) :
        test_parameters_defining_test_case_behavior[i] # PyStr("test_stage")

\* The collected tests come in groups of one test per test stage, a group
\* for each (bunch, model, dataset) triple: the group of the i-th test.
Triple(i) == (i - 1) \div Len(test_stages)

AsSequence(v) == IF v.tag = "list" THEN v.items ELSE <<v>>

ModelsOf(el) == AsSequence(dict_get(el, "model_name"))

DatasetsOf(el) == AsSequence(dict_get(el, "dataset_name"))

Passes(el, usecase) == usecase = None \/ dict_get(el, "usecase") = usecase

\* the number of tests of the bunch el
CountOf(el) == Len(ModelsOf(el)) * Len(DatasetsOf(el)) * Len(test_stages)

\* the number of tests of the first b bunches that pass the filter
RECURSIVE CountUpTo(_, _)

CountUpTo(b, usecase) ==
    IF b = 0 THEN 0
    ELSE CountUpTo(b - 1, usecase)
            + (IF Passes(test_bunches[b], usecase) THEN CountOf(test_bunches[b]) ELSE 0)

\* (model_name, dataset_name, test_stage) of the tests of a result
TriplesOf(r) ==
    [i \in 1..Len(r.argvalues) |->
        <<r.argvalues[i][1].model_name, r.argvalues[i][1].dataset_name,
          r.argvalues[i][1].test_stage>>]

\* C7: the tests that get_list_of_tests returns are in bunch order, within a
\* bunch in model-major order of models x datasets, and within a pair in the
\* order of the test stages; a bunch that passes the filter has exactly
\* |models| * |datasets| * |stages| tests; a scalar model_name or
\* dataset_name counts as a sequence of one element.
C7_ExpansionOrder ==
    \A u \in Filters : results[u].raised = "none" =>
        /\ Len(results[u].argvalues) = CountUpTo(Len(test_bunches), u)
        /\ \A b \in 1..Len(test_bunches) : Passes(test_bunches[b], u) =>
               LET M == ModelsOf(test_bunches[b])
                   D == DatasetsOf(test_bunches[b])
                   S == test_stages
               IN  \A mi \in 1..Len(M), di \in 1..Len(D), si \in 1..Len(S) :
                       LET n == CountUpTo(b - 1, u)
                                  + ((mi - 1) * Len(D) + (di - 1)) * Len(S) + si
                       IN  TriplesOf(results[u])[n] = <<M[mi], D[di], S[si]>>

\* The bunch with models [A, B] and dataset X gives (A, X, train),
\* (A, X, eval), (B, X, train), (B, X, eval); another result has the tests
\* of two bunches, one of them with two models and two datasets.
C7_Witness ==
    /\ \E u \in Filters :
           /\ results[u].raised = "none"
           /\ TriplesOf(results[u]) =
                  << <<PyStr("A"), PyStr("X"), PyStr("train")>>,
                     <<PyStr("A"), PyStr("X"), PyStr("eval")>>,
                     <<PyStr("B"), PyStr("X"), PyStr("train")>>,
                     <<PyStr("B"), PyStr("X"), PyStr("eval")>> >>
    /\ Len(test_bunches) = 2
    /\ results[None].raised = "none"
    /\ \E b \in 1..2 : Len(ModelsOf(test_bunches[b])) = 2
                       /\ Len(DatasetsOf(test_bunches[b])) = 2

\* the bunches of the engine whose usecase is u
BunchesWithUsecase(u) ==
    SelectSeq(test_bunches, LAMBDA el : dict_get(el, "usecase") = u)

\* the tests of the given bunches, without a filter
TestsOf(bunches) ==
    Returned(get_list_of_tests([Self EXCEPT !.test_bunches = bunches], None))

AllDiscovered == \A u \in Filters : results[u] # NotCalled

\* every test bunch of the engine is a dict
AllBunchesAreDicts == \A b \in 1..Len(test_bunches) : is_dict(test_bunches[b])

\* When every bunch is a dict, a test is in get_list_of_tests(u) if and only
\* if it is a test of a bunch whose usecase is u; otherwise
\* get_list_of_tests(u) raises.
FilterSelectsByUsecase ==
    \A u \in Filters \ {None} :
        results[u] # NotCalled =>
            IF AllBunchesAreDicts
            THEN results[u] = TestsOf(BunchesWithUsecase(u))
            ELSE results[u].raised = "AssertionError"

\* C8 as stated: a test is in get_list_of_tests(u) if and only if the usecase
\* of its bunch is u, and the tests of get_list_of_tests(None) are the union
\* over all u of the tests of get_list_of_tests(u).
C8_UnionOfFilters ==
    /\ FilterSelectsByUsecase
    /\ (AllDiscovered /\ results[None].raised = "none") =>
           Range(results[None].argvalues) =
               UNION {Range(results[u].argvalues) : u \in Filters \ {None}}

\* C8, amended: a test is in get_list_of_tests(u) if and only if the usecase
\* of its bunch is u, and when get_list_of_tests(None) returns, its tests are
\* the union over all u of the tests of get_list_of_tests(u) together with
\* the tests of the bunches whose usecase is None or absent.
C8_UnionOfFiltersAndUnset ==
    /\ FilterSelectsByUsecase
    /\ (AllDiscovered /\ results[None].raised = "none") =>
           Range(results[None].argvalues) =
               UNION {Range(results[u].argvalues) : u \in Filters \ {None}}
                   \cup Range(TestsOf(BunchesWithUsecase(None)).argvalues)

\* All filters were used on a bunch with a usecase and one without.
C8_Witness ==
    /\ AllDiscovered
    /\ results[None].raised = "none"
    /\ results[PyStr("precommit")].argvalues # <<>>
    /\ TestsOf(BunchesWithUsecase(None)).argvalues # <<>>

IsGetListOfTests(i) == i \in 1..Len(log) /\ log[i].op = "get_list_of_tests"

\* C9: get_list_of_tests leaves the cache, the test bunches and the rest of
\* the engine as they are, so that every get_test_case call finds the cache
\* as the get_test_case call before it left it, whatever get_list_of_tests
\* calls were made in between.
C9_GetListOfTestsIsPure ==
    /\ [][(Len(log') = Len(log) + 1 /\ log'[Len(log')].op = "get_list_of_tests")
             => /\ cache' = cache
                /\ test_bunches' = test_bunches
                /\ created' = created
                /\ config' = config]_vars
    /\ [](\A k \in 1..Len(log) : IsGetTestCase(k) =>
             \/ /\ \A j \in 1..(k - 1) : ~IsGetTestCase(j)
                /\ log[k].before = Cache_init
             \/ \E i \in 1..(k - 1) :
                    /\ IsGetTestCase(i)
                    /\ \A j \in (i + 1)..(k - 1) : ~IsGetTestCase(j)
                    /\ log[k].before = log[i].after)

\* A test case is constructed, get_list_of_tests returns tests, and the
\* next get_test_case call gets the cached test case.
C9_Witness ==
    \E i \in 1..Len(log) :
        /\ Constructs(i)
        /\ IsGetListOfTests(i + 1)
        /\ log[i + 1].result.argvalues # <<>>
        /\ Returns(i + 2)
        /\ ~log[i + 2].called_ctor
        /\ log[i + 2].value = log[i].value

\* C10: two get_list_of_tests calls with the same usecase return the same
\* (argnames, argvalues, ids), whatever get_test_case calls were made in
\* between.
C10_SameFilterSameResult ==
    \A i, j \in 1..Len(log) :
        (IsGetListOfTests(i) /\ IsGetListOfTests(j) /\ log[i].usecase = log[j].usecase)
            => log[i].result = log[j].result

\* Two calls with the same usecase that returned tests, with a get_test_case
\* call that constructed a test case in between.
C10_Witness ==
    \E i, k, j \in 1..Len(log) :
        /\ i < k /\ k < j
        /\ IsGetListOfTests(i) /\ IsGetListOfTests(j)
        /\ log[i].usecase = log[j].usecase
        /\ log[i].result.raised = "none"
        /\ log[i].result.argvalues # <<>>
        /\ Constructs(k)

(***************************************************************************)
(* Default values.                                                         *)
(***************************************************************************)
\* the parameters that get_list_of_tests sets itself in every test
ExpandedKeys == {"test_stage", "model_name", "dataset_name"}

\* the tests of bunch b in the result of get_list_of_tests(u)
TestsOfBunch(u, b) ==
    [n \in 1..CountOf(test_bunches[b]) |->
        results[u].argvalues[CountUpTo(b - 1, u) + n][1]]

\* In the tests of every bunch, every default parameter k has the default
\* value if Unset(el, k) and the value of the bunch otherwise.
DefaultsFilled(Unset(_, _), keys) ==
    \A u \in Filters : results[u].raised = "none" =>
        \A b \in 1..Len(test_bunches) : Passes(test_bunches[b], u) =>
            \A n \in 1..CountOf(test_bunches[b]) : \A k \in keys :
                LET el == test_bunches[b]
                    test_parameters == TestsOfBunch(u, b)[n]
                IN  /\ k \in DOMAIN test_parameters
                    /\ test_parameters[k] =
                           IF Unset(el, k) THEN default_test_parameters[k] ELSE el[k]

\* C11 as stated: in every test that get_list_of_tests returns, a default
\* parameter that the bunch lacks, or for which it holds the "unset"
\* placeholder, has the default value, and one for which the bunch holds any
\* other value keeps that value.
C11_DefaultUnlessExplicit ==
    DefaultsFilled(LAMBDA el, k : \/ k \notin DOMAIN el
                                  \/ el[k] = DEFAULT_FIELD_VALUE_FOR_USING_IN_TEST,
                   DOMAIN default_test_parameters)

\* C11, amended: in every test that get_list_of_tests returns, a default
\* parameter other than test_stage, model_name and dataset_name that the
\* bunch lacks, or for which it holds None or the "unset" placeholder, has
\* the default value, and one for which the bunch holds any other value keeps
\* that value.
C11_DefaultUnlessSet ==
    DefaultsFilled(LAMBDA el, k : \/ k \notin DOMAIN el
                                  \/ el[k] = None
                                  \/ el[k] = DEFAULT_FIELD_VALUE_FOR_USING_IN_TEST,
                   DOMAIN default_test_parameters \ ExpandedKeys)

\* The tests of a bunch with the placeholder have the default batch_size,
\* the tests of a bunch with batch_size 8 have 8.
C11_Witness ==
    /\ results[None].raised = "none"
    /\ "batch_size" \in DOMAIN default_test_parameters
    /\ \E b, c \in 1..Len(test_bunches) :
           /\ dict_get(test_bunches[b], "batch_size") = DEFAULT_FIELD_VALUE_FOR_USING_IN_TEST
           /\ TestsOfBunch(None, b)[1].batch_size = default_test_parameters.batch_size
           /\ dict_get(test_bunches[c], "batch_size") = PyInt("8")
           /\ TestsOfBunch(None, c)[1].batch_size = PyInt("8")

(***************************************************************************)
(* Test ids.                                                               *)
(***************************************************************************)
InitIds == InitWith(IdContracts)

\* _generate_test_id(test_parameters) is called.
GenerateTestId(test_parameters) ==
    /\ status = "ready"
    /\ Len(log) < MaxIds
    /\ log' = Append(log, [op |-> "generate_test_id",
                           test_parameters |-> test_parameters,
                           result |-> generate_test_id(Self, test_parameters)])
    /\ UNCHANGED <<test_creation_parameters, callers, config, test_bunches, cache, created, results, suite>>

NextIds == \E tp \in IdParameterInputs : GenerateTestId(tp)

SpecIds == InitIds /\ [][NextIds]_vars

\* i is a _generate_test_id call that returned an id
ReturnsId(i) ==
    /\ i \in 1..Len(log)
    /\ log[i].op = "generate_test_id"
    /\ log[i].result.raised = "none"

\* the parameters that the id is made of
IdKeys ==
    {short_test_parameters_names_for_generating_id[i][1].text :
        i \in 1..Len(short_test_parameters_names_for_generating_id)}

HasComma(s) == \E i \in 1..Len(s) : SubSeq(s, i, i) = ","

\* C12 as stated: two tests that differ in the value of a parameter of the
\* id have different ids.
C12_DifferentValuesDifferentIds ==
    \A i, j \in 1..Len(log) : (ReturnsId(i) /\ ReturnsId(j)) =>
        ((\E k \in IdKeys : log[i].test_parameters[k] # log[j].test_parameters[k])
            => log[i].result.id # log[j].result.id)

\* C12, amended: two tests have different ids if, for a parameter of the id,
\* the string forms of their values differ, and the string form of no value
\* of a parameter of the id of either test contains a comma.
C12_DifferentTextsDifferentIds ==
    \A i, j \in 1..Len(log) : (ReturnsId(i) /\ ReturnsId(j)) =>
        ((/\ \E k \in IdKeys : format(log[i].test_parameters[k])
                                  # format(log[j].test_parameters[k])
          /\ \A k \in IdKeys : /\ ~HasComma(format(log[i].test_parameters[k]))
                               /\ ~HasComma(format(log[j].test_parameters[k])))
            => log[i].result.id # log[j].result.id)

\* Ids of two tests without commas that differ in model_name.
C12_Witness ==
    /\ ReturnsId(1) /\ ReturnsId(2)
    /\ log[1].test_parameters.model_name # log[2].test_parameters.model_name
    /\ \A k \in IdKeys : /\ ~HasComma(format(log[1].test_parameters[k]))
                         /\ ~HasComma(format(log[2].test_parameters[k]))
    /\ log[1].result.id # log[2].result.id

\* 'shortname-value' of the names from the i-th on, each preceded by a comma
RECURSIVE PairsFrom(_, _)

PairsFrom(test_parameters, i) ==
    LET names == short_test_parameters_names_for_generating_id
    IN  IF i > Len(names) THEN ""
        ELSE "," \o names[i][2].text \o "-"
                 \o format(test_parameters[names[i][1].text])
                 \o PairsFrom(test_parameters, i + 1)

\* C13: the id of a test is the 'shortname-value' pairs of the parameters of
\* the id, in the order of short_test_parameters_names_for_generating_id,
\* joined by commas; two tests with the same values of these parameters have
\* the same id, whatever their other parameters are.
C13_IdOfIdParameters ==
    /\ \A i \in 1..Len(log) : ReturnsId(i) =>
           "," \o log[i].result.id = PairsFrom(log[i].test_parameters, 1)
    /\ \A i, j \in 1..Len(log) : (ReturnsId(i) /\ ReturnsId(j)) =>
           ((\A k \in IdKeys : log[i].test_parameters[k] = log[j].test_parameters[k])
               => log[i].result.id = log[j].result.id)

\* Two tests, one with and one without num_iters, with the id of the
\* parameters they share.
C13_Witness ==
    /\ ReturnsId(1) /\ ReturnsId(2)
    /\ "num_iters" \in DOMAIN log[1].test_parameters
    /\ "num_iters" \notin DOMAIN log[2].test_parameters
    /\ \A k \in IdKeys : log[1].test_parameters[k] = log[2].test_parameters[k]
    /\ log[1].result.id = "ACTION-train,model-A,dataset-Y,batch-8,usecase-precommit"
    /\ log[2].result.id = log[1].result.id

(***************************************************************************)
(* Construction of the engine.                                             *)
(***************************************************************************)
\* What the test creation parameters returned is what the claim says
\* __init__ must reject.
MustBeRejected ==
    LET names == test_creation_parameters.returned.short_test_parameters_names_for_generating_id
        keys == test_creation_parameters.returned.test_parameters_defining_test_case_behavior
    IN  \/ \E k \in RequiredNames : \A i \in 1..Len(names.items) : names.items[i][1] # PyStr(k)
        \/ names.type # "OrderedDict"
        \/ \E i \in 1..Len(names.items) : \E j \in 1..2 : names.items[i][j].tag # "str"
        \/ \E i \in 1..Len(keys) : keys[i].tag # "str"

\* no operation of the engine has run
NothingRan ==
    /\ log = <<>>
    /\ \A u \in Filters : results[u] = NotCalled
    /\ suite = NoSuite
    /\ cache = Cache_init
    /\ created = 0

\* C14: construction of the engine fails, and no get_list_of_tests or
\* get_test_case runs on it, whenever the names for the ids lack test_stage,
\* model_name, dataset_name or usecase, are not an OrderedDict of strings to
\* strings, or a parameter defining the test case behavior is not a string.
C14_InvalidParametersRejected == MustBeRejected => (status = "failed" /\ NothingRan)

\* Construction failed for names that lack usecase only.
C14_Witness ==
    /\ status = "failed"
    /\ test_creation_parameters.returned.short_test_parameters_names_for_generating_id
           = ShortNamesWithout("usecase")
    /\ test_creation_parameters.returned.test_parameters_defining_test_case_behavior
           = Keys(<<"model_name">>)

(***************************************************************************)
(* The objects that the test creation parameters returned.                 *)
(***************************************************************************)
InitMutation == InitWith(MutationContracts)

\* the field of the engine after the object was changed: the changed object
\* if the engine holds the object itself, the field as it was if the engine
\* holds a copy
FieldAfter(field, object) ==
    IF field \notin test_creation_parameters.held THEN Self[field]
    ELSE IF field = "short_test_parameters_names_for_generating_id" THEN object.items
    ELSE object

\* The caller changes, in place, an object that a method of the test
\* creation parameters returned to __init__.
CallerMutates(field) ==
    /\ status = "ready"
    /\ Len(log) < MaxSteps
    /\ \A i \in 1..Len(log) : ~(log[i].op = "mutate" /\ log[i].field = field)
    /\ LET object == Mutated(field, test_creation_parameters.returned[field])
       IN  /\ test_creation_parameters' =
                  [test_creation_parameters EXCEPT !.returned[field] = object]
           /\ test_bunches' = IF field = "test_bunches"
                              THEN FieldAfter(field, object) ELSE test_bunches
           /\ short_test_parameters_names_for_generating_id' =
                  IF field = "short_test_parameters_names_for_generating_id"
                  THEN FieldAfter(field, object)
                  ELSE short_test_parameters_names_for_generating_id
           /\ test_parameters_defining_test_case_behavior' =
                  IF field = "test_parameters_defining_test_case_behavior"
                  THEN FieldAfter(field, object)
                  ELSE test_parameters_defining_test_case_behavior
           /\ default_test_parameters' =
                  IF field = "default_test_parameters"
                  THEN FieldAfter(field, object) ELSE default_test_parameters
    /\ log' = Append(log, [op |-> "mutate", field |-> field])
    /\ UNCHANGED <<callers, status, test_stages, cache, created, results, suite>>

NextMutation ==
    \/ \E field \in {"test_bunches", "short_test_parameters_names_for_generating_id",
                     "test_parameters_defining_test_case_behavior",
                     "default_test_parameters"} : CallerMutates(field)
    \/ \E tp \in TestParameterInputs, raises \in BOOLEAN : GetTestCase(tp, raises)
    \/ \E u \in Filters : GetListOfTests(u)

SpecMutation == InitMutation /\ [][NextMutation]_vars

\* C15 as stated: what the test creation parameters returned is copied into
\* the engine, so that a change of the returned bunches, names, behavior
\* parameters or defaults after the construction changes neither what
\* get_list_of_tests returns nor the parameters by which get_test_case
\* decides to reuse the test case.
C15_ReturnedObjectsCopied ==
    /\ \A i, j \in 1..Len(log) :
           (IsGetListOfTests(i) /\ IsGetListOfTests(j) /\ log[i].usecase = log[j].usecase)
               => log[i].result = log[j].result
    /\ \A i, j \in 1..Len(log) :
           (Projects(i) /\ Projects(j)) => DOMAIN log[i].params = DOMAIN log[j].params

(***************************************************************************)
(* Bunches that get_list_of_tests cannot expand.                           *)
(***************************************************************************)
\* the list of names that el holds under k, after the normalization of
\* lines 256-263
Normalized(el, k) ==
    IF dict_get(el, k).tag = "list" THEN dict_get(el, k).items ELSE <<dict_get(el, k)>>

\* el passes the filter of line 254
PassesFilter(el, usecase) == usecase = None \/ dict_get(el, "usecase") = usecase

\* el is not a dict, or its model names or its dataset names are empty
CannotBeExpanded(el) ==
    \/ ~is_dict(el)
    \/ Normalized(el, "model_name") = <<>>
    \/ Normalized(el, "dataset_name") = <<>>

\* C16 as stated: if a bunch that passes the usecase filter is not a dict, or
\* has no model names or no dataset names, get_list_of_tests raises and
\* returns nothing.
C16_UnexpandableBunchRaises ==
    \A u \in Filters :
        (/\ results[u] # NotCalled
         /\ \E b \in 1..Len(test_bunches) :
                PassesFilter(test_bunches[b], u) /\ CannotBeExpanded(test_bunches[b]))
            => results[u].raised # "none"

(***************************************************************************)
(* The shape of what get_list_of_tests returns.                            *)
(***************************************************************************)
\* C17: the triple that get_list_of_tests returns has the names
\* ('test_parameters',), as many values as ids, every value a tuple of one
\* dict of test parameters, and as i-th id the test id generated from the
\* i-th test parameters.
C17_ShapeOfResult ==
    \A u \in Filters :
        (results[u] # NotCalled /\ results[u].raised = "none") =>
            /\ results[u].argnames = <<"test_parameters">>
            /\ Len(results[u].argvalues) = Len(results[u].ids)
            /\ \A i \in 1..Len(results[u].argvalues) :
                   LET value == results[u].argvalues[i]
                   IN  /\ Len(value) = 1
                       /\ is_dict(value[1])
                       /\ generate_test_id(Self, value[1]) =
                              [raised |-> "none", id |-> results[u].ids[i]]

\* get_list_of_tests returned the tests of two bunches, one of them with a
\* batch_size that is the placeholder of the default value
C17_Witness ==
    \E u \in Filters :
        /\ results[u] # NotCalled
        /\ results[u].raised = "none"
        /\ Len(results[u].ids) >= 4
        /\ \E b \in 1..Len(test_bunches) :
               dict_get(test_bunches[b], "batch_size") = DEFAULT_FIELD_VALUE_FOR_USING_IN_TEST

(***************************************************************************)
(* The default test creation parameters.                                   *)
(***************************************************************************)
InitDefault == InitWith(DefaultContracts)

SpecDefault == InitDefault /\ [][NextMatrix]_vars

\* C18 as stated: with the names and the default values of
\* DefaultOTETestCreationParametersInterface and bunches that have only
\* model_name, dataset_name and usecase, get_list_of_tests returns, and every
\* test parameters dict that it returns has test_stage, model_name,
\* dataset_name and every parameter that the id is made of.
C18_DefaultParametersExpand ==
    \A u \in Filters :
        results[u] # NotCalled =>
            /\ results[u].raised = "none"
            /\ \A i \in 1..Len(results[u].argvalues) :
                   {"test_stage", "model_name", "dataset_name"} \cup IdKeys
                       \subseteq DOMAIN results[u].argvalues[i][1]

(***************************************************************************)
(* get_test_case called by threads.  A call is the steps of lines 292,     *)
(* 293, 296, 298 and 302; each step is atomic, and so is the set of line   *)
(* 298.  The test case constructor returns.                                *)
(***************************************************************************)
\* a thread that is not in get_test_case and has not called it yet
Idle == [pc |-> "idle", calls |-> 0, params_defining_cache |-> EmptyDict,
         test_case |-> NoneObj, value |-> NoneObj]

\* the callers either serialize their calls or do not
InitThreads ==
    /\ Constructed(ThreadContracts)
    /\ threads \in {[serialized |-> b, built |-> <<>>, call |-> [t \in Threads |-> Idle]] :
                       b \in BOOLEAN}
    /\ current_test_parameters = NoTestParameters

\* Thread t calls get_test_case(test_parameters, ...): line 292.
Project(t, test_parameters) ==
    LET keys == test_parameters_defining_test_case_behavior
    IN  /\ status = "ready"
        /\ threads.call[t].pc = "idle"
        /\ threads.call[t].calls < MaxCalls
        /\ threads.serialized => \A o \in Threads : threads.call[o].pc = "idle"
        /\ \A i \in 1..Len(keys) : keys[i].text \in DOMAIN test_parameters
        /\ threads' = [threads EXCEPT
               !.call[t].pc = "compare",
               !.call[t].params_defining_cache =
                   [k \in {keys[i].text : i \in 1..Len(keys)} |-> test_parameters[k]]]
        /\ UNCHANGED <<test_creation_parameters, config, test_bunches, cache, created,
                       log, results, suite, current_test_parameters>>

\* line 293
Compare(t) ==
    /\ threads.call[t].pc = "compare"
    /\ threads' = [threads EXCEPT !.call[t].pc =
           IF ~Cache_has_same_params(cache, threads.call[t].params_defining_cache)
           THEN "construct" ELSE "read"]
    /\ UNCHANGED <<test_creation_parameters, config, test_bunches, cache, created,
                   log, results, suite, current_test_parameters>>

\* line 296; built keeps the parameters that each test case was constructed for
Construct(t) ==
    /\ threads.call[t].pc = "construct"
    /\ created' = created + 1
    /\ threads' = [threads EXCEPT
           !.call[t].pc = "store",
           !.call[t].test_case = created + 1,
           !.built = Append(@, threads.call[t].params_defining_cache)]
    /\ UNCHANGED <<test_creation_parameters, config, test_bunches, cache,
                   log, results, suite, current_test_parameters>>

\* line 298
Store(t) ==
    /\ threads.call[t].pc = "store"
    /\ cache' = Cache_set(cache, threads.call[t].params_defining_cache,
                          threads.call[t].test_case)
    /\ threads' = [threads EXCEPT !.call[t].pc = "read"]
    /\ UNCHANGED <<test_creation_parameters, config, test_bunches, created,
                   log, results, suite, current_test_parameters>>

\* line 302: the call returns what the cache holds now
Read(t) ==
    /\ threads.call[t].pc = "read"
    /\ threads' = [threads EXCEPT !.call[t].pc = "idle",
                                  !.call[t].calls = @ + 1,
                                  !.call[t].value = Cache_get(cache)]
    /\ UNCHANGED <<test_creation_parameters, config, test_bunches, cache, created,
                   log, results, suite, current_test_parameters>>

NextThreads ==
    \E t \in Threads :
        \/ \E tp \in ThreadParameterInputs : Project(t, tp)
        \/ Compare(t)
        \/ Construct(t)
        \/ Store(t)
        \/ Read(t)

SpecThreads == InitThreads /\ [][NextThreads]_vars

\* the last get_test_case call of thread t has returned
HasReturned(t) == threads.call[t].pc = "idle" /\ threads.call[t].calls > 0

\* the last get_test_case call of thread t returned a test case that was
\* constructed for the parameters of the call
ReturnedOwnTestCase(t) ==
    /\ threads.call[t].value \in 1..Len(threads.built)
    /\ threads.built[threads.call[t].value] = threads.call[t].params_defining_cache

\* C19: when the get_test_case calls are made one after the other, every call
\* returns a test case that was constructed for its own parameters; when the
\* steps of two calls interleave, a call can return a test case that was
\* constructed for the parameters of the other call (C19_Witness).
C19_SerializedCallsReturnOwnTestCase ==
    threads.serialized =>
        \A t \in DOMAIN threads.call : HasReturned(t) => ReturnedOwnTestCase(t)

\* two calls with different parameters interleaved, and one of them returned
\* the test case that was constructed for the other one
C19_Witness ==
    /\ ~threads.serialized
    /\ \E t, o \in DOMAIN threads.call :
           /\ HasReturned(t)
           /\ ~ReturnedOwnTestCase(t)
           /\ threads.call[t].value = threads.call[o].test_case
           /\ threads.call[o].params_defining_cache # threads.call[t].params_defining_cache

(***************************************************************************)
(* The caller changes the test parameters that it called get_test_case     *)
(* with.                                                                   *)
(***************************************************************************)
InitAlias ==
    /\ Constructed(AliasContracts)
    /\ threads = NoThreads
    /\ current_test_parameters = HeldTestParameters

\* The caller appends to the list that its test parameters hold as
\* dataset_name; the list is changed wherever it is held.
CallerAppends(x) ==
    /\ status = "ready"
    /\ Len(log) < MaxSteps
    /\ is_object(current_test_parameters.dataset_name)
    /\ Len(current_test_parameters.dataset_name.items) < 2
    /\ current_test_parameters' = appended(current_test_parameters, "datasets", x)
    /\ cache' = [cache EXCEPT !.cache_parameters = appended(@, "datasets", x)]
    /\ UNCHANGED <<test_creation_parameters, config, test_bunches, created, log,
                   results, suite, threads>>

\* The caller assigns to a key of its test parameters.
CallerAssigns(k, v) ==
    /\ status = "ready"
    /\ Len(log) < MaxSteps
    /\ current_test_parameters[k] # v
    /\ current_test_parameters' = [current_test_parameters EXCEPT ![k] = v]
    /\ UNCHANGED <<test_creation_parameters, config, test_bunches, cache, created,
                   log, results, suite, threads>>

NextAlias ==
    \/ \E raises \in BOOLEAN : GetTestCase(current_test_parameters, raises)
    \/ \E tp \in AliasParameterInputs, raises \in BOOLEAN : GetTestCase(tp, raises)
    \/ CallerAppends(PyStr("Y"))
    \/ \E v \in {PyStr("A"), PyStr("B")} : CallerAssigns("model_name", v)

SpecAlias == InitAlias /\ [][NextAlias]_vars

\* j is the last get_test_case call before call i that returned
LastReturnBefore(i, j) == j < i /\ Returns(j) /\ NothingReturnedBetween(j, i)

\* C20: a change that the caller makes to its test parameters, or to a list
\* in them, leaves the parameters stored in the cache as they are; so a
\* get_test_case call constructs a test case if and only if the contents of
\* its projected parameters differ from what the projected parameters of the
\* last call that returned were when that call was made.
C20_StoredKeyIsACopy ==
    /\ [][current_test_parameters' # current_test_parameters => cache' = cache]_vars
    /\ [](\A i \in 1..Len(log) : Projects(i) =>
             /\ (\A j \in 1..(i - 1) : ~Returns(j)) => log[i].called_ctor
             /\ \A j \in 1..(i - 1) : LastReturnBefore(i, j) =>
                    (log[i].called_ctor <=>
                         deepcopy(log[i].params) # deepcopy(log[j].params)))

\* The caller called with its test parameters, appended to the list in them,
\* called with new test parameters of the first contents and got the same
\* test case, and called with its changed test parameters and got a new one.
C20_Witness ==
    /\ Len(log) = 3
    /\ \A i \in 1..3 : Returns(i)
    /\ log[1].params = [model_name |-> PyStr("A"),
                        dataset_name |-> Object("datasets", <<PyStr("X")>>)]
    /\ log[2].params = [model_name |-> PyStr("A"),
                        dataset_name |-> PyList(<<PyStr("X")>>)]
    /\ ~log[2].called_ctor
    /\ log[2].value = log[1].value
    /\ log[3].params = [model_name |-> PyStr("A"),
                        dataset_name |-> Object("datasets", <<PyStr("X"), PyStr("Y")>>)]
    /\ log[3].called_ctor
    /\ log[3].value # log[1].value

====
